---- MODULE Spec2Model ----
(***************************************************************************)
(* Model of the Mercari price-search program: the search wrapper           *)
(* search_card_sync in its two variants (MercariScraper.py, used by App.py, *)
(* and the stand-alone app.py), the Streamlit handlers main() that call it, *)
(* and the statistics and filter functions of Utils.py / app.py.            *)
(*                                                                         *)
(* Strings the code inspects (the card number and card name) are sequences *)
(* of one-character strings, so that strip() and truthiness are computed.  *)
(* Python's None is the string "None" where it stands beside strings.      *)
(***************************************************************************)
EXTENDS Integers, Sequences, FiniteSets, Bags, TLC

\* ------------------------------------------------------------------ bounds
\* Longest provider payload of a direct call of search_card_sync.
MaxItems == 3
\* Longest provider payload of a search submitted through the UI.
MaxUIItems == 1
\* Event loops left open after which no further search is started.
MaxOpenLoops == 2
\* Longest listing sequence handed to the statistics in StatsSpec.
MaxListings == 3
\* Longest listing sequence of RoundSpec: a mean of integer prices has
\* exactly three decimals ending in 5 only from eight listings on.
MaxRoundLen == 8
\* Longest listing sequence handed to a filter or sort in FilterSpec.
MaxFilterLen == 4

\* --------------------------------------------------------------- constants
None == "None"
NoQuery == << >>
NoReturn == [none |-> TRUE]
NoException == [none |-> TRUE]
NoStats == [none |-> TRUE]
NoOp == [name |-> "none"]

\* The fixed keyword prefix of the query (the Japanese for "Pokemon card").
QueryPrefix == <<"PokemonCard">>
\* config.MERCARI_ITEM_URL
MERCARI_ITEM_URL == <<"https://jp.mercari.com/item">>

\* ------------------------------------------------------------- input sets
\* Card numbers a caller or the form may supply: empty, blank, plain, and
\* one with trailing whitespace.
CardNumbers == { <<>>, <<" ">>, <<"7">>, <<"7", " ">> }
\* Card names: None / empty (both falsy) and one real name.
CardNames == { <<>>, <<"x">> }

\* Messages of the exceptions the mercapi library can raise.  A timeout of
\* the HTTP layer is an exception whose str() is empty.
ProviderErrors == { "", "connection error" }
ConstructorErrors == { "client init failed" }
AttributeErrorMsg == "object has no attribute"

\* Raw records of a provider payload: price and status are whatever the
\* provider sent; a record that is not wellFormed lacks an attribute the
\* parsing loop reads, so reading it raises AttributeError.
RawRecords ==
  { [price |-> 100,  status |-> "on_sale",  wellFormed |-> TRUE],
    [price |-> 200,  status |-> "sold_out", wellFormed |-> TRUE],
    [price |-> 100,  status |-> "trading",  wellFormed |-> TRUE],
    [price |-> 100,  status |-> None,       wellFormed |-> TRUE],
    [price |-> -100, status |-> "on_sale",  wellFormed |-> TRUE],
    [price |-> 100,  status |-> "on_sale",  wellFormed |-> FALSE] }

\* Payloads of at most n records; the provider gives every record its own id
\* (here its position).
Payloads(n) == UNION { [1..k -> RawRecords] : k \in 0..n }
Items(payload) ==
  [i \in 1..Len(payload) |->
     [id |-> i, price |-> payload[i].price, status |-> payload[i].status,
      wellFormed |-> payload[i].wellFormed]]

\* ------------------------------------------------------------------ state
VARIABLES
  variant,      \* "scraper": MercariScraper.py + App.py; "app": app.py
  available,    \* app.py's MERCAPI_AVAILABLE
  caller,       \* who called search_card_sync: "direct" or "ui"
  pc,           \* "idle", "awaiting", "returned", "raised"
  cardNumber,   \* card_number as passed to search_card_sync
  cardName,     \* card_name as passed to search_card_sync
  formNumber,   \* the form's card number text, as typed
  query,        \* the search query built by this invocation, or NoQuery
  requests,     \* provider requests issued by this invocation
  openLoops,    \* event loops created and not closed
  ret,          \* the dict search_card_sync returned, or NoReturn
  exc,          \* the exception that escaped search_card_sync, or NoException
  session,      \* st.session_state: a function from its keys
  message,      \* what main() last showed: "none", "unavailable", "empty",
                \* "searching", "error", "no_results", "success", "crash"
  listings,     \* the listing sequence handed to the statistics function
                \* or to a filter or sort
  stats,        \* the statistics dict it returned, or NoStats
  heap,         \* the list objects of a filter or sort call: heap[r] is
                \* what the list with reference r holds now
  out,          \* the reference the call returned, 0 before it returns
  op            \* the call made: its name, its arguments and the value of
                \* the list it returned, or NoOp

vars == << variant, available, caller, pc, cardNumber, cardName, formNumber,
           query, requests, openLoops, ret, exc, session, message,
           listings, stats, heap, out, op >>

\* The state of the search and of main(): all but the variant.
searchVars == << available, caller, pc, cardNumber, cardName, formNumber,
                 query, requests, openLoops, ret, exc, session, message >>
statsVars == << listings, stats >>
filterVars == << heap, out, op >>


\* ---------------------------------------------------------------- strings
\* str.strip(): leading and trailing whitespace removed.
RECURSIVE LStrip(_)
LStrip(s) == IF s # <<>> /\ Head(s) = " " THEN LStrip(Tail(s)) ELSE s
RECURSIVE RStrip(_)
RStrip(s) ==
  IF s # <<>> /\ s[Len(s)] = " " THEN RStrip(SubSeq(s, 1, Len(s) - 1)) ELSE s
Strip(s) == RStrip(LStrip(s))

\* Python truthiness of a string (or of None, modelled as the empty name).
Truthy(s) == s # <<>>

\* The f-string query of search_card_sync / search_pokemon_card.
BuildQuery(card_number, card_name) ==
  LET base == QueryPrefix \o <<" ">> \o card_number
  IN  IF Truthy(card_name) THEN base \o <<" ">> \o card_name ELSE base

\* ------------------------------------------------------- result parsing
\* The parsing loop reads id, name, price, status and thumbnails of every
\* item; an item lacking one raises AttributeError out of the loop.
ParseRaises(items) == \E i \in 1..Len(items) : ~items[i].wellFormed

\* The listing dict built for one item: price and status are copied as they
\* are (name and thumbnail, copied the same way, are left out).
MakeListing(item) ==
  [item_id |-> item.id, price |-> item.price, status |-> item.status,
   url |-> MERCARI_ITEM_URL \o <<"/", item.id>>]

ParseListings(items) == [i \in 1..Len(items) |-> MakeListing(items[i])]

SuccessResult(q, parsed) ==
  [success |-> TRUE, query |-> q, listings |-> parsed]
FailureResult(msg) ==
  [success |-> FALSE, error |-> msg, listings |-> <<>>]

\* app.py's fixed message when the mercapi import failed.
UnavailableMsg == "mercapi library required"

\* The request issued a second time.
RetryRequest(n) == n + 2
\* One call of mercapi.search: one more request to the provider.
IssueRequest(n) == n + 1

\* ------------------------------------------------------ search_card_sync
\* search_card_sync from its call to the point where it waits for the
\* provider (loop.run_until_complete), or to its end when it does not get
\* that far.  ctor is the outcome of Mercapi(): "ok" or the message of the
\* exception it raises.
SearchBegin(card_number, card_name, ctor) ==
  /\ cardNumber' = card_number
  /\ cardName' = card_name
  /\ IF variant = "scraper"
     THEN \* MercariScraper() is constructed before the try block.
          IF ctor # "ok"
          THEN /\ pc' = "raised"
               /\ exc' = [msg |-> ctor]
               /\ ret' = NoReturn
               /\ query' = NoQuery
               /\ requests' = 0
               /\ openLoops' = openLoops
          ELSE /\ pc' = "awaiting"
               /\ exc' = NoException
               /\ ret' = NoReturn
               /\ openLoops' = openLoops + 1
               /\ query' = BuildQuery(card_number, card_name)
               /\ requests' = IssueRequest(0)
     ELSE IF ~available
          THEN /\ pc' = "returned"
               /\ exc' = NoException
               /\ ret' = FailureResult(UnavailableMsg)
               /\ query' = NoQuery
               /\ requests' = 0
               /\ openLoops' = openLoops
          ELSE IF ctor # "ok"
               THEN \* Mercapi() is constructed inside the try block.
                    /\ pc' = "returned"
                    /\ exc' = NoException
                    /\ ret' = FailureResult(ctor)
                    /\ query' = BuildQuery(card_number, card_name)
                    /\ requests' = 0
                    /\ openLoops' = openLoops
               ELSE /\ pc' = "awaiting"
                    /\ exc' = NoException
                    /\ ret' = NoReturn
                    /\ openLoops' = openLoops + 1
                    /\ query' = BuildQuery(card_number, card_name)
                    /\ requests' = IssueRequest(0)

\* The dict built from a provider response: the parsing loop and the
\* except clause around it.
ResultOf(q, items) ==
  IF ParseRaises(items) THEN FailureResult(AttributeErrorMsg)
  ELSE SuccessResult(q, ParseListings(items))

\* The provider answers the one request with a payload: the rest of
\* search_card_sync.  Both variants close the loop on this path.
SearchResponds(payload) ==
  /\ pc = "awaiting"
  /\ pc' = "returned"
  /\ ret' = ResultOf(query, Items(payload))
  /\ openLoops' = openLoops - 1
  /\ UNCHANGED << variant, available, caller, cardNumber, cardName,
                  formNumber, query, requests, exc, session, message,
                  listings, stats, heap, out, op >>

\* The provider call raises (timeout, connection error, bad payload).
\* MercariScraper.py catches it inside the coroutine, so run_until_complete
\* returns and the loop is closed; app.py's run_until_complete raises and
\* loop.close() is skipped.
SearchRaises(msg) ==
  /\ pc = "awaiting"
  /\ pc' = "returned"
  /\ ret' = FailureResult(msg)
  /\ openLoops' = IF variant = "scraper" THEN openLoops - 1 ELSE openLoops
  /\ UNCHANGED << variant, available, caller, cardNumber, cardName,
                  formNumber, query, requests, exc, session, message,
                  listings, stats, heap, out, op >>

CtorOutcomes == {"ok"} \cup ConstructorErrors

\* A direct call of search_card_sync(card_number, card_name).
Call ==
  /\ pc = "idle"
  /\ openLoops < MaxOpenLoops
  /\ \E cn \in CardNumbers, name \in CardNames, ctor \in CtorOutcomes :
       SearchBegin(cn, name, ctor)
  /\ caller' = "direct"
  /\ UNCHANGED << variant, available, formNumber, session, message,
                  listings, stats, heap, out, op >>

ProviderResponds == \E payload \in Payloads(MaxItems) : SearchResponds(payload)

ProviderRaises == \E msg \in ProviderErrors : SearchRaises(msg)

\* The direct caller takes the result (or the exception) and is free to
\* call again.
Return ==
  /\ pc \in {"returned", "raised"}
  /\ caller = "direct"
  /\ pc' = "idle"
  /\ ret' = NoReturn
  /\ exc' = NoException
  /\ query' = NoQuery
  /\ requests' = 0
  /\ cardNumber' = <<>>
  /\ cardName' = <<>>
  /\ UNCHANGED << variant, available, caller, formNumber, openLoops,
                  session, message, listings, stats, heap, out, op >>

\* No filter or sort call is under way.
InitNoFilter == heap = << >> /\ out = 0 /\ op = NoOp

InitCommon ==
  /\ variant \in {"scraper", "app"}
  /\ available \in BOOLEAN
  /\ (variant = "scraper" => available)
  /\ pc = "idle"
  /\ cardNumber = <<>>
  /\ cardName = <<>>
  /\ formNumber = <<>>
  /\ query = NoQuery
  /\ requests = 0
  /\ openLoops = 0
  /\ ret = NoReturn
  /\ exc = NoException
  /\ session = << >>
  /\ message = "none"

InitCall ==
  /\ InitCommon
  /\ caller = "direct"
  /\ listings = << >>
  /\ stats = NoStats
  /\ InitNoFilter

NextCall == Call \/ ProviderResponds \/ ProviderRaises \/ Return

\* Direct calls of search_card_sync, one after another.
CallSpec == InitCall /\ [][NextCall]_vars

\* The same, with the caller's own step (taking the returned value) fair.
\* Nothing makes the provider answer: the code sets no timeout of its own.
FairCallSpec == CallSpec /\ WF_vars(Return)


\* ------------------------------------------------------------------ main()
\* main()'s check of the form's card number: App.py tests the text as typed,
\* app.py tests it stripped.
Rejected(num) ==
  IF variant = "scraper" THEN ~Truthy(num) ELSE ~Truthy(Strip(num))

\* The arguments main() passes to search_card_sync: App.py passes the texts
\* as typed, app.py passes them stripped.
PassedNumber(num) == IF variant = "scraper" THEN num ELSE Strip(num)
PassedName(name) ==
  IF variant = "scraper" THEN name
  ELSE IF Truthy(name) THEN Strip(name) ELSE << >>

\* The form is submitted: main() up to the point where the search waits for
\* the provider.  app.py stops before the form when mercapi is missing.
Submit ==
  /\ pc = "idle"
  /\ openLoops < MaxOpenLoops
  /\ \E num \in CardNumbers, name \in CardNames, ctor \in CtorOutcomes :
       /\ formNumber' = num
       /\ IF variant = "app" /\ ~available
          THEN /\ message' = "unavailable"
               /\ UNCHANGED << pc, cardNumber, cardName, query, requests,
                               openLoops, ret, exc >>
          ELSE IF Rejected(num)
          THEN /\ message' = "empty"
               /\ UNCHANGED << pc, cardNumber, cardName, query, requests,
                               openLoops, ret, exc >>
          ELSE /\ message' = "searching"
               /\ SearchBegin(PassedNumber(num), PassedName(name), ctor)
  /\ caller' = "ui"
  /\ UNCHANGED << variant, available, session, listings, stats,
                  heap, out, op >>

\* The card number of an earlier search is kept when one is already stored.
StoredSessionStaleNumber(result) ==
  LET number == IF "card_number" \in DOMAIN session
                THEN session.card_number ELSE formNumber
  IN  IF variant = "scraper"
      THEN [search_result |-> result, card_number |-> number,
            card_name |-> cardName]
      ELSE [result |-> result, card_number |-> number]

\* What main() stores in st.session_state after a search with listings.
StoredSession(result) ==
  IF variant = "scraper"
  THEN [search_result |-> result, card_number |-> formNumber,
        card_name |-> cardName]
  ELSE [result |-> result, card_number |-> formNumber]

\* search_card_sync is back in main(): the rest of the handler.  An
\* exception that escaped search_card_sync ends the script run.
HandleResult ==
  /\ pc \in {"returned", "raised"}
  /\ caller = "ui"
  /\ IF pc = "raised"
     THEN message' = "crash" /\ session' = session
     ELSE IF ~ret.success
     THEN message' = "error" /\ session' = session
     ELSE IF ret.listings = << >>
     THEN message' = "no_results" /\ session' = session
     ELSE message' = "success" /\ session' = StoredSession(ret)
  /\ pc' = "idle"
  /\ ret' = NoReturn
  /\ exc' = NoException
  /\ query' = NoQuery
  /\ requests' = 0
  /\ cardNumber' = <<>>
  /\ cardName' = <<>>
  /\ UNCHANGED << variant, available, caller, formNumber, openLoops,
                  listings, stats, heap, out, op >>

UIProviderResponds ==
  \E payload \in Payloads(MaxUIItems) : SearchResponds(payload)

Init ==
  /\ InitCommon
  /\ caller = "ui"
  /\ listings = << >>
  /\ stats = NoStats
  /\ InitNoFilter

Next == Submit \/ UIProviderResponds \/ ProviderRaises \/ HandleResult

\* The Streamlit application: searches submitted through the form.
Spec == Init /\ [][Next]_vars


\* -------------------------------------------------------------- statistics
\* Both statistics functions put a listing under sold when its status is
\* 'sold_out' and under active otherwise.
IsOnSale(l) == l.status = "on_sale"
IsSold(l) == l.status = "sold_out"
IsActive(l) == ~IsSold(l)

PricesOf(ls) == [i \in 1..Len(ls) |-> ls[i].price]

RECURSIVE SumSeq(_)
SumSeq(ps) == IF ps = << >> THEN 0 ELSE Head(ps) + SumSeq(Tail(ps))

RECURSIVE MinSeq(_)
MinSeq(ps) ==
  IF Len(ps) = 1 THEN ps[1]
  ELSE LET m == MinSeq(Tail(ps)) IN IF Head(ps) < m THEN Head(ps) ELSE m

RECURSIVE MaxSeq(_)
MaxSeq(ps) ==
  IF Len(ps) = 1 THEN ps[1]
  ELSE LET m == MaxSeq(Tail(ps)) IN IF Head(ps) > m THEN Head(ps) ELSE m

\* sorted(): insertion into an ascending sequence, after equal elements.
RECURSIVE InsertSorted(_, _)
InsertSorted(x, ps) ==
  IF ps = << >> THEN << x >>
  ELSE IF x < Head(ps) THEN << x >> \o ps
  ELSE << Head(ps) >> \o InsertSorted(x, Tail(ps))

RECURSIVE Sorted(_)
Sorted(ps) ==
  IF ps = << >> THEN << >>
  ELSE InsertSorted(ps[Len(ps)], Sorted(SubSeq(ps, 1, Len(ps) - 1)))

\* round(num / den, 2) in hundredths, den > 0, by the rule that rounds an
\* exact tie towards 1 (half-up).
RoundHalfUp(num, den) ==
  LET q == (100 * num) \div den
      r == (100 * num) % den
  IN  IF 2 * r >= den THEN q + 1 ELSE q

\* Python's round(num / den, 2), in hundredths, den > 0: the nearest
\* hundredth of the float, an exact tie going to the even hundredth.  For
\* fewer than 40 listings every quotient that is a tie is a multiple of 1/8,
\* which the float holds exactly, and no other quotient is close enough to a
\* tie for the float's error to matter.
Round2(num, den) ==
  LET q == (100 * num) \div den
      r == (100 * num) % den
  IN  IF 2 * r < den THEN q
      ELSE IF 2 * r > den THEN q + 1
      ELSE IF q % 2 = 0 THEN q ELSE q + 1

\* round(statistics.mean(prices), 2), in hundredths.
Mean2(ps) == Round2(SumSeq(ps), Len(ps))

\* The middle element of the prices as they stand (in hundredths), or the
\* mean of the two middle ones.
MiddleOf(ps) ==
  LET n == Len(ps)
  IN  IF n % 2 = 1 THEN 100 * ps[(n + 1) \div 2]
      ELSE Round2(ps[n \div 2] + ps[n \div 2 + 1], 2)

\* The median taken without sorting the prices first.
MedianUnsorted(ps) == MiddleOf(ps)
\* round(statistics.median(prices), 2), in hundredths: the middle of the
\* sorted prices.
Median2(ps) == MiddleOf(Sorted(ps))

\* A listing counts as active only when its status is 'on_sale'.
ActivePricesOnSaleOnly(ls) == PricesOf(SelectSeq(ls, IsOnSale))
ActivePrices(ls) == PricesOf(SelectSeq(ls, IsActive))
SoldPrices(ls) == PricesOf(SelectSeq(ls, IsSold))

\* Utils.calculate_price_statistics.  average_price and median_price are in
\* hundredths.
calculate_price_statistics(ls) ==
  IF ls = << >>
  THEN [total_listings |-> 0, active_listings |-> 0, sold_listings |-> 0,
        average_price |-> None, median_price |-> None,
        min_price |-> None, max_price |-> None,
        active_prices |-> << >>, sold_prices |-> << >>]
  ELSE LET active_prices == ActivePrices(ls)
           sold_prices == SoldPrices(ls)
           all_prices == active_prices \o sold_prices
       IN  [total_listings |-> Len(ls),
            active_listings |-> Len(active_prices),
            sold_listings |-> Len(sold_prices),
            average_price |->
              IF all_prices # << >> THEN Mean2(all_prices) ELSE None,
            median_price |->
              IF all_prices # << >> THEN Median2(all_prices) ELSE None,
            min_price |->
              IF all_prices # << >> THEN MinSeq(all_prices) ELSE None,
            max_price |->
              IF all_prices # << >> THEN MaxSeq(all_prices) ELSE None,
            active_prices |-> active_prices,
            sold_prices |-> sold_prices]

\* app.py's calculate_stats.  avg and median are in hundredths.
calculate_stats(ls) ==
  IF ls = << >>
  THEN [total |-> 0, active |-> 0, sold |-> 0,
        avg |-> None, median |-> None, min |-> None, max |-> None,
        active_prices |-> << >>, sold_prices |-> << >>]
  ELSE LET active_prices == ActivePrices(ls)
           sold_prices == SoldPrices(ls)
           all_prices == active_prices \o sold_prices
       IN  [total |-> Len(ls),
            active |-> Len(active_prices),
            sold |-> Len(sold_prices),
            avg |->
              IF all_prices # << >> THEN Mean2(all_prices) ELSE None,
            median |->
              IF all_prices # << >> THEN Median2(all_prices) ELSE None,
            min |->
              IF all_prices # << >> THEN MinSeq(all_prices) ELSE None,
            max |->
              IF all_prices # << >> THEN MaxSeq(all_prices) ELSE None,
            active_prices |-> active_prices,
            sold_prices |-> sold_prices]

\* The status filter handing back its input when nothing matches.
filter_listings_by_status_or_all(ls, status) ==
  LET Keep(l) == l.status = status
  IN  IF SelectSeq(ls, Keep) = << >> THEN ls ELSE SelectSeq(ls, Keep)

\* Utils.filter_listings_by_status
filter_listings_by_status(ls, status) ==
  LET Keep(l) == l.status = status IN SelectSeq(ls, Keep)

\* The statistics of either variant under common field names.
StatsView(st) ==
  IF "total_listings" \in DOMAIN st
  THEN [total |-> st.total_listings, active |-> st.active_listings,
        sold |-> st.sold_listings, mean |-> st.average_price,
        median |-> st.median_price, min |-> st.min_price,
        max |-> st.max_price, active_prices |-> st.active_prices,
        sold_prices |-> st.sold_prices]
  ELSE [total |-> st.total, active |-> st.active, sold |-> st.sold,
        mean |-> st.avg, median |-> st.median, min |-> st.min,
        max |-> st.max, active_prices |-> st.active_prices,
        sold_prices |-> st.sold_prices]

\* The statistics function the variant's display_results calls.
Statistics(ls) ==
  IF variant = "scraper" THEN calculate_price_statistics(ls)
  ELSE calculate_stats(ls)

\* App.py's display_results computes the statistics of the listings.
CalculatePriceStatistics ==
  /\ variant = "scraper"
  /\ stats = NoStats
  /\ stats' = calculate_price_statistics(listings)
  /\ UNCHANGED << variant, searchVars, listings, filterVars >>

\* app.py's display_results computes the statistics of the listings.
CalculateStats ==
  /\ variant = "app"
  /\ stats = NoStats
  /\ stats' = calculate_stats(listings)
  /\ UNCHANGED << variant, searchVars, listings, filterVars >>

\* The caller hands over the same listings in another order: two
\* neighbours change places.
Shuffle ==
  /\ \E i \in 1..(Len(listings) - 1) :
       listings' = [listings EXCEPT ![i] = listings[i + 1],
                                    ![i + 1] = listings[i]]
  /\ UNCHANGED << variant, searchVars, stats, filterVars >>

\* Listing sequences a search can return: the listings parsed from a
\* payload of well-formed records.
ListingSeqs(records, n) ==
  { ParseListings(Items(p)) :
      p \in UNION { [1..k -> records] : k \in 0..n } }

WellFormedRecords == { r \in RawRecords : r.wellFormed }

InitStats ==
  /\ InitCommon
  /\ caller = "ui"
  /\ listings \in ListingSeqs(WellFormedRecords, MaxListings)
  /\ stats = NoStats
  /\ InitNoFilter

NextStats == CalculatePriceStatistics \/ CalculateStats \/ Shuffle

\* The statistics functions applied to every short listing sequence, in
\* every order.
StatsSpec == InitStats /\ [][NextStats]_vars

\* Records with prices 0 and 1: their means run through every multiple of
\* 1/8, the ties of rounding to two decimals among them.
SmallPriceRecords ==
  { [price |-> p, status |-> s, wellFormed |-> TRUE] :
      p \in {0, 1}, s \in {"on_sale", "sold_out"} }

InitRound ==
  /\ InitCommon
  /\ caller = "ui"
  /\ listings \in ListingSeqs(SmallPriceRecords, MaxRoundLen)
  /\ stats = NoStats
  /\ InitNoFilter

NextRound == CalculatePriceStatistics \/ CalculateStats

\* The statistics functions applied to longer sequences of small prices.
RoundSpec == InitRound /\ [][NextRound]_vars


\* ================================================================== claims
RecognizedStatuses == {"on_sale", "sold_out"}

\* A step in which the search fails: the client cannot be made (the call
\* ends without waiting for the provider), the provider call raises, or the
\* payload holds a record that cannot be read.
FailingStep ==
  \/ pc = "idle" /\ pc' \notin {"idle", "awaiting"}
  \/ ProviderRaises
  \/ \E payload \in Payloads(MaxItems) :
       SearchResponds(payload) /\ ParseRaises(Items(payload))

\* C1: every failure of the provider call or of making the client ends
\* search_card_sync with a returned result, never a raised exception, whose
\* success is false, whose error message is not empty and whose listings
\* are empty.
C1_FailureIsReturned ==
  [][FailingStep =>
       /\ pc' = "returned"
       /\ ret'.success = FALSE
       /\ ret'.error # ""
       /\ ret'.listings = << >>]_vars

\* C2: every listing of a returned search result has status on_sale or
\* sold_out (anything else having become on_sale), and the listings the
\* status filter keeps as on_sale are as many as the statistics count as
\* active.
C2_StatusIsActiveOrSold ==
  (pc = "returned" /\ ret.success) =>
     /\ \A i \in 1..Len(ret.listings) :
          ret.listings[i].status \in RecognizedStatuses
     /\ Len(filter_listings_by_status(ret.listings, "on_sale"))
          = StatsView(Statistics(ret.listings)).active

NonNegativePrice(item) == item.price >= 0

\* C3: the listings a search returns are those of the payload's records
\* with price >= 0, in order: a record with a negative price is left out.
C3_NegativePriceSkipped ==
  [][\A payload \in Payloads(MaxItems) :
       (SearchResponds(payload) /\ ~ParseRaises(Items(payload))) =>
          ret'.listings
            = ParseListings(SelectSeq(Items(payload), NonNegativePrice))]_vars

WellFormedItem(item) == item.wellFormed
Malformed(payload) == { i \in 1..Len(payload) : ~payload[i].wellFormed }

\* C4: when exactly one record of the payload cannot be read, the search
\* still succeeds and returns the listings of all other records, in order.
C4_BadRecordSkipped ==
  [][\A payload \in Payloads(MaxItems) :
       (SearchResponds(payload) /\ Cardinality(Malformed(payload)) = 1) =>
          /\ ret'.success
          /\ Len(ret'.listings) = Len(payload) - 1
          /\ \A i \in 1..Len(ret'.listings) :
               ret'.listings[i].item_id
                 = SelectSeq(Items(payload), WellFormedItem)[i].id]_vars

\* C5: for a card number that is empty or only whitespace no query is built
\* and no request is issued.
C5_BlankNumberNeverSearched ==
  (pc # "idle" /\ Strip(cardNumber) = << >>) =>
     (query = NoQuery /\ requests = 0)

\* C6 as stated: every finished invocation has issued exactly one request.
C6_ExactlyOneRequest ==
  pc \in {"returned", "raised"} => requests = 1

\* C6 as amended: an invocation issues at most one request, exactly one
\* once it waits for the provider; from there every step ends the wait with
\* that one request still the only one (no retry), and a provider failure
\* is the failed result of the invocation.
C6_AtMostOneRequestNoRetry ==
  /\ [](requests <= 1 /\ (pc = "awaiting" => requests = 1))
  /\ [][pc = "awaiting" => (pc' = "returned" /\ requests' = 1)]_vars
  /\ [][ProviderRaises => (ret'.success = FALSE /\ ret'.listings = << >>)]_vars

\* A failed request was issued once and reported as a failed result.
C6_Witness ==
  pc = "returned" /\ requests = 1 /\ ~ret.success /\ ret.error \in ProviderErrors

\* C7: every search that waits for the provider eventually returns a
\* result.
C7_SearchEventuallyReturns == (pc = "awaiting") ~> (pc = "returned")

\* C8: active count + sold count = total = number of listings, and the two
\* price sequences are as long as their counts.
C8_CountsAddUp ==
  stats # NoStats =>
     LET v == StatsView(stats)
     IN  /\ v.active + v.sold = v.total
         /\ v.total = Len(listings)
         /\ Len(v.active_prices) = v.active
         /\ Len(v.sold_prices) = v.sold

\* Statistics of listings one of which has a status that is neither
\* on_sale nor sold_out.
C8_Witness ==
  /\ stats # NoStats
  /\ Len(listings) >= 2
  /\ \E i \in 1..Len(listings) : listings[i].status \notin RecognizedStatuses
  /\ \E i \in 1..Len(listings) : listings[i].status = "sold_out"

\* C9 as stated: the statistics of the listings in any other order are
\* identical, field by field, to those computed before.
C9_IdenticalInEveryOrder ==
  stats # NoStats => Statistics(listings) = stats

BagOfSeq(ps) ==
  [v \in {ps[i] : i \in 1..Len(ps)} |->
     Cardinality({i \in 1..Len(ps) : ps[i] = v})]

\* C9 as amended: in any other order the counts, mean, median, min and max
\* are identical, and the active and sold price sequences hold the same
\* prices the same number of times.
C9_SameUpToPriceOrder ==
  stats # NoStats =>
     LET v == StatsView(stats)
         w == StatsView(Statistics(listings))
     IN  /\ w.total = v.total /\ w.active = v.active /\ w.sold = v.sold
         /\ w.mean = v.mean /\ w.median = v.median
         /\ w.min = v.min /\ w.max = v.max
         /\ BagOfSeq(w.active_prices) = BagOfSeq(v.active_prices)
         /\ BagOfSeq(w.sold_prices) = BagOfSeq(v.sold_prices)

\* The listings were reordered after their statistics were computed, and
\* the order of the active prices changed with them.
C9_Witness ==
  /\ stats # NoStats
  /\ Len(listings) >= 3
  /\ StatsView(Statistics(listings)).active_prices
       # StatsView(stats).active_prices

CountLess(ps, v) == Cardinality({i \in 1..Len(ps) : ps[i] < v})
CountLeq(ps, v) == Cardinality({i \in 1..Len(ps) : ps[i] <= v})
\* The k-th smallest of the prices, by counting.
KthSmallest(ps, k) ==
  CHOOSE v \in {ps[i] : i \in 1..Len(ps)} :
    CountLess(ps, v) < k /\ CountLeq(ps, v) >= k

\* h hundredths is the median of the prices.
IsMedian(h, ps) ==
  LET n == Len(ps)
  IN  IF n % 2 = 1 THEN h = 100 * KthSmallest(ps, (n + 1) \div 2)
      ELSE h = 50 * (KthSmallest(ps, n \div 2) + KthSmallest(ps, n \div 2 + 1))

Abs(x) == IF x < 0 THEN -x ELSE x

MinMaxExact(v, ps) ==
  /\ \E i \in 1..Len(ps) : ps[i] = v.min
  /\ \E i \in 1..Len(ps) : ps[i] = v.max
  /\ \A i \in 1..Len(ps) : v.min <= ps[i] /\ ps[i] <= v.max

\* C10 as stated: the mean of all prices is rounded to two decimals with a
\* tie rounded up (0.125 gives 0.13), the median is that of all prices, and
\* min and max are the smallest and largest price.
C10_MeanRoundedHalfUp ==
  (stats # NoStats /\ listings # << >>) =>
     LET v == StatsView(stats)
         ps == PricesOf(listings)
     IN  /\ v.mean = RoundHalfUp(SumSeq(ps), Len(ps))
         /\ IsMedian(v.median, ps)
         /\ MinMaxExact(v, ps)

\* C10 as amended: the mean of all prices is reported as the nearest
\* hundredth, a tie going to the even hundredth (0.125 gives 0.12); the
\* median is that of all prices; min and max are the smallest and largest
\* price.
C10_MeanRoundedHalfEven ==
  (stats # NoStats /\ listings # << >>) =>
     LET v == StatsView(stats)
         ps == PricesOf(listings)
         n == Len(ps)
         d == Abs(100 * SumSeq(ps) - v.mean * n)
     IN  /\ 2 * d <= n
         /\ (2 * d = n => v.mean % 2 = 0)
         /\ IsMedian(v.median, ps)
         /\ MinMaxExact(v, ps)

\* Eight listings, both statuses among them, whose mean is exactly 0.125,
\* reported as 0.12.
C10_Witness ==
  /\ stats # NoStats
  /\ Len(listings) = 8
  /\ SumSeq(PricesOf(listings)) = 1
  /\ \E i \in 1..8 : listings[i].status = "sold_out"
  /\ \E i \in 1..8 : listings[i].status = "on_sale"
  /\ StatsView(stats).mean = 12


\* ------------------------------------------------------------ C15, C16
HasResult == DOMAIN session # {}
SessionResult ==
  IF variant = "scraper" THEN session.search_result ELSE session.result

\* C15 as stated: a result held in the session is a successful one with at
\* least one listing, and the card number held with it is the identifier
\* its search was made for (the one in the result's query).
C15_StoredNumberIsSearched ==
  HasResult =>
     /\ SessionResult.success
     /\ SessionResult.listings # << >>
     /\ \E name \in CardNames :
          SessionResult.query
            = BuildQuery(session.card_number, PassedName(name))

\* C15 as amended: a result held in the session is a successful one with at
\* least one listing, and the card number held with it is the card number
\* typed for its search: the identifier searched for in App.py, and the
\* identifier searched for once stripped in app.py; a submission that is
\* rejected, fails, crashes or finds nothing leaves the session as it was.
C15_StoredNumberIsTyped ==
  /\ [](HasResult =>
          /\ SessionResult.success
          /\ SessionResult.listings # << >>
          /\ \E name \in CardNames :
               SessionResult.query
                 = BuildQuery(PassedNumber(session.card_number),
                              PassedName(name)))
  /\ [][(pc' = "idle" /\ message' # "success") => session' = session]_vars

\* A search stored its result and a later search, for another card number,
\* failed.
C15_Witness ==
  /\ HasResult
  /\ message = "error"
  /\ pc = "idle"
  /\ formNumber # session.card_number

\* C16: no event loop created by search_card_sync is open once it has
\* returned or raised.
C16_LoopsClosedOnReturn ==
  pc \in {"idle", "returned", "raised"} => openLoops = 0


\* ====================================================== filters and sort
\* An Optional[int] argument is a set: empty for None, {x} for the int x.
Absent == {}
ValueOf(opt) == CHOOSE x \in opt : TRUE

\* `if min_price:` in place of `if min_price is not None:`, and the same
\* for max_price: a bound of 0 counts as no bound.
filter_listings_by_price_truthy(ls, min_price, max_price) ==
  LET AtLeast(l) == l.price >= ValueOf(min_price)
      AtMost(l) == l.price <= ValueOf(max_price)
      filtered == IF min_price # Absent /\ min_price # {0}
                  THEN SelectSeq(ls, AtLeast) ELSE ls
  IN  IF max_price # Absent /\ max_price # {0}
      THEN SelectSeq(filtered, AtMost) ELSE filtered

\* Utils.filter_listings_by_price: the value of the list it returns.
filter_listings_by_price(ls, min_price, max_price) ==
  LET AtLeast(l) == l.price >= ValueOf(min_price)
      AtMost(l) == l.price <= ValueOf(max_price)
      filtered == IF min_price # Absent THEN SelectSeq(ls, AtLeast) ELSE ls
  IN  IF max_price # Absent THEN SelectSeq(filtered, AtMost) ELSE filtered

\* Whether filter_listings_by_price builds a list: each bound that is given
\* runs a list comprehension; with none, `filtered` is still `listings`.
PriceFilterBuildsList(min_price, max_price) ==
  min_price # Absent \/ max_price # Absent

\* list.reverse()
Reverse(ls) == [i \in 1..Len(ls) |-> ls[Len(ls) + 1 - i]]

\* One step of a stable ascending sort by price: x goes after every element
\* whose price is not greater.
RECURSIVE InsertByPrice(_, _)
InsertByPrice(x, ls) ==
  IF ls = << >> THEN << x >>
  ELSE IF x.price < Head(ls).price THEN << x >> \o ls
  ELSE << Head(ls) >> \o InsertByPrice(x, Tail(ls))

\* sorted(ls, key=lambda x: x['price'])
RECURSIVE SortedByPrice(_)
SortedByPrice(ls) ==
  IF ls = << >> THEN << >>
  ELSE InsertByPrice(ls[Len(ls)], SortedByPrice(SubSeq(ls, 1, Len(ls) - 1)))

\* The ascending result turned around.
ReversedAscending(ls) == Reverse(SortedByPrice(ls))

\* sorted(ls, key=lambda x: x['price'], reverse=True): Python reverses the
\* list, sorts it stably and reverses the result, which keeps elements of
\* equal price in their original order.
SortedByPriceReverse(ls) == Reverse(SortedByPrice(Reverse(ls)))

\* app.py display_results: the status filter of the select box.
DisplayStatusFilter(ls, status_filter) ==
  IF status_filter = "on_sale" THEN SelectSeq(ls, IsActive)
  ELSE IF status_filter = "sold_out" THEN SelectSeq(ls, IsSold)
  ELSE ls

\* app.py display_results: copy, status filter, sort.
DisplaySorted(ls, status_filter, ascending) ==
  IF ascending THEN SortedByPrice(DisplayStatusFilter(ls, status_filter))
  ELSE SortedByPriceReverse(DisplayStatusFilter(ls, status_filter))

\* App.py display_results: a number input of 0 is passed as None.
PassedBound(n) == IF n > 0 THEN {n} ELSE Absent

\* App.py display_results: status filter, then the price filter when one of
\* the number inputs is above 0.
DisplayFiltered(ls, status_filter, min_price, max_price) ==
  LET byStatus == IF status_filter \in {"on_sale", "sold_out"}
                  THEN filter_listings_by_status(ls, status_filter) ELSE ls
  IN  IF min_price > 0 \/ max_price > 0
      THEN filter_listings_by_price(byStatus, PassedBound(min_price),
                                    PassedBound(max_price))
      ELSE byStatus

\* Whether App.py's filtering builds a list, or `filtered_listings` is
\* still the session's `listings`.
DisplayFilterBuildsList(status_filter, min_price, max_price) ==
  status_filter \in {"on_sale", "sold_out"} \/ min_price > 0 \/ max_price > 0

\* ------------------------------------------------------------ input sets
FilterRecords ==
  { [price |-> 0,   status |-> "on_sale",  wellFormed |-> TRUE],
    [price |-> 50,  status |-> "sold_out", wellFormed |-> TRUE],
    [price |-> 100, status |-> "on_sale",  wellFormed |-> TRUE],
    [price |-> 200, status |-> "sold_out", wellFormed |-> TRUE] }
\* Price bounds a caller passes, and numbers the number inputs hold.
PriceBounds == { Absent, {0}, {100}, {200} }
NumberInputs == { 0, 100, 200 }
StatusArgs == { "on_sale", "sold_out" }
StatusChoices == { "all", "on_sale", "sold_out" }

\* The call returns the list `src` itself, or a new list holding `value`.
Returns(buildsList, value, call) ==
  /\ out = 0
  /\ IF buildsList
     THEN heap' = Append(heap, value) /\ out' = Len(heap) + 1
     ELSE heap' = heap /\ out' = 1
  /\ op' = call
  /\ UNCHANGED << variant, searchVars, statsVars >>

\* filter_listings_by_price(listings, min_price, max_price)
FilterByPrice ==
  \E min_price \in PriceBounds, max_price \in PriceBounds :
    LET value == filter_listings_by_price(heap[1], min_price, max_price)
    IN  Returns(PriceFilterBuildsList(min_price, max_price), value,
                [name |-> "price", min |-> min_price, max |-> max_price,
                 value |-> value])

\* filter_listings_by_status(listings, status): always a new list.
FilterByStatus ==
  \E status \in StatusArgs :
    LET value == filter_listings_by_status(heap[1], status)
    IN  Returns(TRUE, value,
                [name |-> "status", status |-> status, value |-> value])

\* The two Utils filters one after the other, in either order.
ComposeFilters ==
  \E first \in {"price", "status"}, status \in StatusArgs,
     min_price \in PriceBounds, max_price \in PriceBounds :
    LET value ==
          IF first = "price"
          THEN filter_listings_by_status(
                 filter_listings_by_price(heap[1], min_price, max_price),
                 status)
          ELSE filter_listings_by_price(
                 filter_listings_by_status(heap[1], status), min_price, max_price)
    IN  Returns(TRUE, value,
                [name |-> "compose", first |-> first, status |-> status,
                 min |-> min_price, max |-> max_price, value |-> value])

\* App.py display_results with its three filter widgets.
DisplayFilter ==
  \E status_filter \in StatusChoices,
     min_price \in NumberInputs, max_price \in NumberInputs :
    LET value == DisplayFiltered(heap[1], status_filter, min_price, max_price)
    IN  Returns(DisplayFilterBuildsList(status_filter, min_price, max_price),
                value,
                [name |-> "display_filter", status |-> status_filter,
                 min |-> PassedBound(min_price),
                 max |-> PassedBound(max_price), value |-> value])

\* app.py display_results with its status and sort select boxes: the copy
\* and sorted() make a new list every time.
DisplaySort ==
  \E status_filter \in StatusChoices, ascending \in BOOLEAN :
    LET value == DisplaySorted(heap[1], status_filter, ascending)
    IN  Returns(TRUE, value,
                [name |-> "display_sort", status |-> status_filter,
                 ascending |-> ascending, value |-> value])

\* The caller changes the list it got back: result.clear().
ClearResult ==
  /\ out # 0
  /\ heap[out] # << >>
  /\ heap' = [heap EXCEPT ![out] = << >>]
  /\ UNCHANGED << variant, searchVars, statsVars, out, op >>

InitFilter ==
  /\ InitCommon
  /\ caller = "ui"
  /\ listings \in ListingSeqs(FilterRecords, MaxFilterLen)
  /\ stats = NoStats
  /\ heap = << listings >>
  /\ out = 0
  /\ op = NoOp

NextFilter ==
  \/ FilterByPrice
  \/ FilterByStatus
  \/ ComposeFilters
  \/ DisplayFilter
  \/ DisplaySort
  \/ ClearResult

\* One filter or sort call on every short listing sequence, and what the
\* caller may do with the list it gets.
FilterSpec == InitFilter /\ [][NextFilter]_vars

\* =================================================== claims on filters
SeqRange(ls) == { ls[i] : i \in 1..Len(ls) }
IdsOf(ls) == [i \in 1..Len(ls) |-> ls[i].item_id]

\* A price filter has returned: a direct call, or the call App.py's
\* display_results makes with the bounds it passes.
PriceFiltered == op.name \in {"price", "display_filter"}

\* The listings the price filter was given.
PriceFilterInput ==
  IF op.name = "display_filter" /\ op.status # "all"
  THEN LET Keep(l) == l.status = op.status IN SelectSeq(listings, Keep)
  ELSE listings

\* C11: the price filter returns exactly the listings with
\* min <= price <= max, in their original order, a bound that is passed
\* being inclusive (0 too) and a bound that is None imposing nothing; with
\* min = max = X it returns exactly the listings of price X.
C11_PriceFilterInclusive ==
  PriceFiltered =>
     LET InRange(l) ==
           /\ (op.min = Absent \/ l.price >= ValueOf(op.min))
           /\ (op.max = Absent \/ l.price <= ValueOf(op.max))
         Exactly(l) == l.price = ValueOf(op.min)
     IN  /\ op.value = SelectSeq(PriceFilterInput, InRange)
         /\ (op.min # Absent /\ op.max = op.min)
               => op.value = SelectSeq(PriceFilterInput, Exactly)

\* filter_listings_by_price(listings, 0, 0) kept a listing of price 0 and
\* dropped another one.
C11_Witness ==
  /\ op.name = "price"
  /\ op.min = {0} /\ op.max = {0}
  /\ op.value # << >>
  /\ Len(op.value) < Len(listings)

\* C12 as stated: every filter and sort call returns a sequence that is
\* not its input, and the input still holds what it held before the call,
\* whatever is done to the returned sequence afterwards.
C12_ResultIsNewSequence ==
  op.name \in {"price", "status", "display_sort"} =>
     /\ out # 1
     /\ heap[1] = listings

\* C13: the sort returns the listings it was given ordered by price in the
\* requested direction, two listings of equal price in their original
\* order (item_id is the original position); prices <<200, 100, 200, 50>>
\* come out as positions <<4, 2, 1, 3>> ascending and <<1, 3, 2, 4>>
\* descending.
C13_SortStableBothWays ==
  op.name = "display_sort" =>
     LET r == op.value
         Kept(l) == \/ op.status = "all"
                    \/ op.status = "sold_out" /\ l.status = "sold_out"
                    \/ op.status = "on_sale" /\ l.status # "sold_out"
     IN  /\ Len(r) = Len(SelectSeq(listings, Kept))
         /\ SeqRange(r) = SeqRange(SelectSeq(listings, Kept))
         /\ \A i, j \in 1..Len(r) : i < j =>
              /\ op.ascending => r[i].price <= r[j].price
              /\ ~op.ascending => r[i].price >= r[j].price
              /\ r[i].price = r[j].price => r[i].item_id < r[j].item_id
         /\ (PricesOf(listings) = <<200, 100, 200, 50>> /\ op.status = "all")
               => IdsOf(r) = IF op.ascending THEN <<4, 2, 1, 3>>
                             ELSE <<1, 3, 2, 4>>

\* The descending sort of prices <<200, 100, 200, 50>> has returned.
C13_Witness ==
  /\ op.name = "display_sort"
  /\ ~op.ascending
  /\ op.status = "all"
  /\ PricesOf(listings) = <<200, 100, 200, 50>>
  /\ IdsOf(op.value) = <<1, 3, 2, 4>>

\* C14: the status filter applied to the price-filtered listings and the
\* price filter applied to the status-filtered listings hold the same
\* listings, for every status and every pair of bounds, None included.
C14_FiltersCommute ==
  op.name = "compose" =>
     LET priceFirst ==
           filter_listings_by_status(
             filter_listings_by_price(listings, op.min, op.max), op.status)
         statusFirst ==
           filter_listings_by_price(
             filter_listings_by_status(listings, op.status), op.min, op.max)
     IN  /\ op.value = IF op.first = "price" THEN priceFirst ELSE statusFirst
         /\ SeqRange(priceFirst) = SeqRange(statusFirst)

\* Price first, both bounds given, and each filter dropped a listing the
\* other one kept.
C14_Witness ==
  /\ op.name = "compose"
  /\ op.first = "price"
  /\ op.min # Absent /\ op.max # Absent
  /\ op.value # << >>
  /\ Len(op.value)
        < Len(filter_listings_by_price(listings, op.min, op.max))
  /\ Len(op.value) < Len(filter_listings_by_status(listings, op.status))

====
